---------------------------- MODULE Spec2Model ----------------------------
(***************************************************************************)
(* Model of src/app.py: a read-only customer lookup service.               *)
(*                                                                         *)
(* Strings of the program are modelled as sequences of one-character       *)
(* strings, so that strip/replace/startswith/int() are computed character  *)
(* by character.  Column names are atoms (TLA+ strings): the program only  *)
(* tests them for membership.  Row positions are zero-based as in the      *)
(* program (enumerate / df.loc); row i of the frame is element i+1 of the  *)
(* sequence df.rows.                                                       *)
(***************************************************************************)
EXTENDS Integers, Sequences, FiniteSets, TLC

VARIABLES
    source,        \* the file at CSV_PATH (environment, never written)
    phase,         \* "boot" | "serving" | "failed": position of the module-level code
    df,            \* module global df: [columns, rows], EmptyFrame before the load
    phone_idx,     \* module global phone_idx (dict), EmptyDict before the load
    contract_idx,  \* module global contract_idx (dict)
    cache,         \* the lru_cache of load_data: [full, value]
    bodyRuns,      \* how many times the body of load_data has been entered
    req,           \* the request being answered: [op, key, fields]
    resp,          \* the response to it: [status, kind, body]
    pc,            \* per caller of load_data: position inside the lru_cache wrapper
    ret,           \* per caller of load_data: what its last call returned / computed
    norm_in,       \* input handed to normalize_phone
    norm_out       \* results of the successive applications of normalize_phone

vars == <<source, phase, df, phone_idx, contract_idx, cache, bodyRuns,
          req, resp, pc, ret, norm_in, norm_out>>

----------------------------------------------------------------------------
\* Bounds of the model.

\* longest input string enumerated for normalize_phone
MaxLen == 3
\* short sources have 0..MaxRows rows
MaxRows == 2
\* long sources have PatchRow .. PatchRow + MaxExtra rows
MaxExtra == 1
\* concurrent callers of load_data
NCallers == 2
\* calls each caller makes
MaxCalls == 2

----------------------------------------------------------------------------
\* Characters and string helpers.

Digits == {"0", "1", "2", "3", "4", "5", "6", "7", "8", "9"}

Whitespace == {" "}

\* str.strip(): drop leading and trailing whitespace
RECURSIVE LStrip(_)
LStrip(s) ==
    IF s # <<>> /\ Head(s) \in Whitespace THEN LStrip(Tail(s)) ELSE s

RECURSIVE RStrip(_)
RStrip(s) ==
    IF s # <<>> /\ s[Len(s)] \in Whitespace
    THEN RStrip(SubSeq(s, 1, Len(s) - 1))
    ELSE s

Strip(s) == RStrip(LStrip(s))

\* str.replace(ch, ""): drop every occurrence of the character ch
RECURSIVE RemoveChar(_, _)
RemoveChar(s, ch) ==
    IF s = <<>> THEN <<>>
    ELSE IF Head(s) = ch THEN RemoveChar(Tail(s), ch)
    ELSE <<Head(s)>> \o RemoveChar(Tail(s), ch)

\* str.startswith(p)
StartsWith(s, p) == Len(s) >= Len(p) /\ SubSeq(s, 1, Len(p)) = p

\* all strings over the alphabet A of length at most n
RECURSIVE StringsUpTo(_, _)
StringsUpTo(A, n) ==
    IF n = 0 THEN {<<>>}
    ELSE LET shorter == StringsUpTo(A, n - 1)
         IN  shorter \cup {Append(s, c) : s \in shorter, c \in A}

----------------------------------------------------------------------------
\* Phone normalization.

\* PHONE_REGEX.match(phone) with PHONE_REGEX = ^[\d\+]+$
PHONE_REGEX_match(phone) ==
    /\ Len(phone) >= 1
    /\ \A i \in 1..Len(phone) : phone[i] \in Digits \cup {"+"}

\* normalize_phone with the startswith("+") branch left out
normalize_phone_no_plus_branch(phone) ==
    LET p == RemoveChar(RemoveChar(Strip(phone), " "), "-")
    IN  IF ~PHONE_REGEX_match(p) THEN p
        ELSE IF StartsWith(p, <<"0", "0">>) THEN <<"+">> \o SubSeq(p, 3, Len(p))
        ELSE <<"+">> \o p

normalize_phone(phone) ==
    LET p == RemoveChar(RemoveChar(Strip(phone), " "), "-")
    IN  IF ~PHONE_REGEX_match(p) THEN p
        ELSE IF StartsWith(p, <<"0", "0">>) THEN <<"+">> \o SubSeq(p, 3, Len(p))
        ELSE IF StartsWith(p, <<"+">>) THEN p
        ELSE IF StartsWith(p, <<"3", "9">>) THEN <<"+">> \o p
        ELSE <<"+">> \o p

----------------------------------------------------------------------------
\* Configuration (the defaults of the os.getenv calls).

PHONE_COL == "phone_number"

CONTRACT_COL == "contract_code"

DEFAULT_FIELDS ==
    <<"contract_code", "platform", "status", "average_arpu", "service_type",
      "activation_date">>

\* the row overwritten at load time, and what is written there
PatchRow == 49

PatchContract == <<"1", "2", "3", "4", "5", "6", "6", "7", "8", "9">>

PatchPhone == <<"+", "3", "9", "3", "4", "7", "8", "9", "3", "3", "1", "9", "4">>

\* how many keys /debug/phones lists
DebugLimit == 20

Range(s) == {s[i] : i \in 1..Len(s)}

----------------------------------------------------------------------------
\* Python dicts.  A dict is held as the sequence of the assignments d[k] = v
\* made to it, in the order they were executed; reading it applies the dict
\* rules: the last assignment of a key gives its value, the first gives its
\* place in the key order.

EmptyDict == <<>>

\* k in d
DictHas(d, k) == \E i \in 1..Len(d) : d[i][1] = k

\* d[k]
DictGet(d, k) ==
    d[CHOOSE i \in 1..Len(d) :
          /\ d[i][1] = k
          /\ \A j \in (i + 1)..Len(d) : d[j][1] # k][2]

\* list(d.keys())
DictKeys(d) ==
    LET firsts == {i \in 1..Len(d) : \A j \in 1..(i - 1) : d[j][1] # d[i][1]}
    IN  [n \in 1..Cardinality(firsts) |->
            d[CHOOSE i \in firsts : Cardinality({j \in firsts : j <= i}) = n][1]]

----------------------------------------------------------------------------
\* Reading the source.  A source is a missing file, a zero-byte file, or a
\* table: a header (set of column names) and rows of raw text cells.

\* the cell texts pandas reads as NaN (those of its default list that the
\* model's sources use)
NA_VALUES == {<<>>, <<"N", "A">>}

NaN == <<"nan">>

\* pd.read_csv(CSV_PATH, sep=CSV_SEP, dtype=str) on a table
read_csv(src) ==
    [columns |-> src.columns,
     rows    |-> [i \in 1..Len(src.rows) |->
                    [c \in src.columns |->
                        IF src.rows[i][c] \in NA_VALUES THEN NaN
                        ELSE src.rows[i][c]]]]

\* DataFrame.fillna("")
fillna(frame) ==
    [columns |-> frame.columns,
     rows    |-> [i \in 1..Len(frame.rows) |->
                    [c \in frame.columns |->
                        IF frame.rows[i][c] = NaN THEN <<>> ELSE frame.rows[i][c]]]]

\* the value the program holds for a raw cell text after read_csv(...).fillna("")
ReadCell(raw) == IF raw \in NA_VALUES THEN <<>> ELSE raw

EmptyFrame == [columns |-> {}, rows |-> <<>>]

\* the phone column left as read
phone_column_as_read(frame) == frame

\* df[PHONE_COL] = df[PHONE_COL].apply(normalize_phone)
normalize_phone_column(frame) ==
    [columns |-> frame.columns,
     rows    |-> [i \in 1..Len(frame.rows) |->
                    [frame.rows[i] EXCEPT ![PHONE_COL] = normalize_phone(@)]]]

\* only the two key columns are required
missing_key_cols(frame) ==
    SelectSeq(<<PHONE_COL, CONTRACT_COL>>, LAMBDA col : col \notin frame.columns)

\* missing_cols = [col for col in required_cols if col not in df.columns]
missing_cols(frame) ==
    SelectSeq(<<PHONE_COL, CONTRACT_COL>> \o DEFAULT_FIELDS,
              LAMBDA col : col \notin frame.columns)

\* if len(df) > 49: df.loc[49, [CONTRACT_COL, PHONE_COL]] = [...]
patch_row(frame) ==
    IF Len(frame.rows) > PatchRow
    THEN [columns |-> frame.columns,
          rows    |-> [frame.rows EXCEPT ![PatchRow + 1] =
                          [@ EXCEPT ![CONTRACT_COL] = PatchContract,
                                    ![PHONE_COL] = normalize_phone(PatchPhone)]]]
    ELSE frame

\* an index in which the first occurrence of a key wins: assignments to a key
\* already present are skipped
build_index_first_wins(frame, col) ==
    SelectSeq([i \in 1..Len(frame.rows) |-> <<frame.rows[i][col], i - 1>>],
              LAMBDA kv : \A j \in 1..kv[2] : frame.rows[j][col] # kv[1])

\* {val: idx for idx, val in enumerate(df[col])}: one assignment per row, in
\* file order
build_index(frame, col) ==
    [i \in 1..Len(frame.rows) |-> <<frame.rows[i][col], i - 1>>]

Raise(msg) ==
    [ok |-> FALSE, error |-> msg, df |-> EmptyFrame,
     phone_idx |-> EmptyDict, contract_idx |-> EmptyDict]

\* the body of load_data: what one execution returns or raises
load_data_body(src) ==
    IF src.kind = "missing" THEN Raise("CSV file not found")
    ELSE IF src.kind = "empty" THEN Raise("CSV file is empty")
    ELSE LET df0 == fillna(read_csv(src))
             df1 == IF PHONE_COL \in df0.columns
                    THEN normalize_phone_column(df0)
                    ELSE df0
         IN  IF missing_cols(df1) # <<>>
             THEN Raise("Error loading data: Missing required columns")
             ELSE LET df2 == patch_row(df1)
                  IN  [ok |-> TRUE, error |-> "",
                       df |-> df2,
                       phone_idx |-> build_index(df2, PHONE_COL),
                       contract_idx |-> build_index(df2, CONTRACT_COL)]

----------------------------------------------------------------------------
\* The sources the model is run on.

OptionalColumns == {"num_contact_tec", "num_contact_amm", "bb_active", "user_name"}

AllColumns == {PHONE_COL, CONTRACT_COL} \cup Range(DEFAULT_FIELDS) \cup OptionalColumns

\* headers: complete, without some optional columns, without a key column,
\* without a default field
ColumnSets ==
    {AllColumns,
     AllColumns \ {"num_contact_tec", "user_name"},
     AllColumns \ {PHONE_COL},
     AllColumns \ {CONTRACT_COL},
     AllColumns \ {"status"}}

RawRow(phone, contract, tec, amm, bb, user) ==
    [c \in AllColumns |->
        CASE c = PHONE_COL -> phone
          [] c = CONTRACT_COL -> contract
          [] c = "num_contact_tec" -> tec
          [] c = "num_contact_amm" -> amm
          [] c = "bb_active" -> bb
          [] c = "user_name" -> user
          [] c = "status" -> <<"o", "k">>
          [] OTHER -> <<"x">>]

\* raw rows: phones that normalize to the same key, repeated contract codes,
\* empty and NA cells, numeric cells that int() accepts and rejects
RowA == RawRow(<<"3", "9", "1">>, <<"A">>, <<"2">>, <<>>, <<"1">>, <<"u">>)

RowB ==
    RawRow(<<"0", "0", "3", "9", "-", "1">>, <<"B">>, <<>>, <<"x">>, <<" ", "7">>, <<>>)

RowC == RawRow(<<"N", "A">>, <<>>, <<"-", "1">>, <<"0">>, <<>>, <<"N", "A">>)

RowD == RawRow(<<"3", "a">>, <<"A">>, <<"x">>, <<"+", "4">>, <<"1", ".", "0">>, <<"v">>)

RowTemplates == {RowA, RowB, RowC, RowD}

Table(cols, rows) ==
    [kind |-> "table", columns |-> cols,
     rows |-> [i \in 1..Len(rows) |-> [c \in cols |-> rows[i][c]]]]

MissingFile == [kind |-> "missing", columns |-> {}, rows |-> <<>>]

EmptyFile == [kind |-> "empty", columns |-> {}, rows |-> <<>>]

\* tables of at most n rows under every header
ShortSources(n) ==
    {Table(cols, rows) :
        cols \in ColumnSets,
        rows \in UNION {[1..k -> RowTemplates] : k \in 0..n}}

\* tables long enough to reach the patched row: one raw row repeated, and RowB
\* at position PatchRow
LongSources ==
    {Table(AllColumns, [i \in 1..n |-> IF i = PatchRow + 1 THEN RowB ELSE filler]) :
        n \in PatchRow..(PatchRow + MaxExtra), filler \in RowTemplates}

Sources == {MissingFile, EmptyFile} \cup ShortSources(MaxRows) \cup LongSources

----------------------------------------------------------------------------
\* Responses.

NoReq == [op |-> "none", key |-> <<>>, fields |-> <<>>]

NoResp == [status |-> 0, kind |-> "none", body |-> <<>>]

\* jsonify(obj) with status 200
json_ok(obj) == [status |-> 200, kind |-> "json", body |-> obj]

\* @app.errorhandler(404)
not_found(description) ==
    [status |-> 404, kind |-> "json", body |-> [detail |-> description]]

\* @app.errorhandler(500)
internal_error(description) ==
    [status |-> 500, kind |-> "json", body |-> [detail |-> "Internal server error"]]

\* abort(status, description): 404 and 500 go to the registered error handlers;
\* no handler is registered for 400, which gets the framework's HTML error page
abort(status, description) ==
    IF status = 404 THEN not_found(description)
    ELSE IF status = 500 THEN internal_error(description)
    ELSE [status |-> status, kind |-> "html",
          body |-> [title |-> "Bad Request", description |-> description]]

----------------------------------------------------------------------------
\* Field projection and value parsing.

\* a projection that ignores the selector and returns the whole record
slice_row_whole(rec, cols) == rec

\* {c: rec[c] for c in cols if c in rec}
slice_row(rec, cols) ==
    [c \in {cols[i] : i \in {j \in 1..Len(cols) : cols[j] \in DOMAIN rec}} |-> rec[c]]

\* fields.split(",") if fields else DEFAULT_FIELDS; the selector is given as the
\* list of names between its commas, <<>> when the parameter is absent or empty
wanted_fields(fields) == IF fields # <<>> THEN fields ELSE DEFAULT_FIELDS

DigitValue(ch) ==
    CASE ch = "0" -> 0 [] ch = "1" -> 1 [] ch = "2" -> 2 [] ch = "3" -> 3
      [] ch = "4" -> 4 [] ch = "5" -> 5 [] ch = "6" -> 6 [] ch = "7" -> 7
      [] ch = "8" -> 8 [] ch = "9" -> 9

RECURSIVE DigitsValue(_)
DigitsValue(s) ==
    IF s = <<>> THEN 0
    ELSE 10 * DigitsValue(SubSeq(s, 1, Len(s) - 1)) + DigitValue(s[Len(s)])

\* int(s) for a string s: surrounding whitespace, an optional sign, decimal
\* digits; anything else raises ValueError (ok = FALSE).  (int() also accepts
\* single underscores between digits; no cell of the model's sources has one.)
int_of_str(s) ==
    LET t == Strip(s)
        signed == t # <<>> /\ Head(t) \in {"+", "-"}
        d == IF signed THEN Tail(t) ELSE t
    IN  IF d # <<>> /\ \A i \in 1..Len(d) : d[i] \in Digits
        THEN [ok |-> TRUE,
              val |-> IF signed /\ Head(t) = "-" THEN 0 - DigitsValue(d)
                      ELSE DigitsValue(d)]
        ELSE [ok |-> FALSE, val |-> 0]

\* int(rec.get(field, 0)): the default 0 is an int already
int_of_field(rec, field) ==
    IF field \in DOMAIN rec THEN int_of_str(rec[field]) ELSE [ok |-> TRUE, val |-> 0]

\* df.loc[pos]
loc(frame, pos) == frame.rows[pos + 1]

----------------------------------------------------------------------------
\* What each request handler answers, read from the module globals.

\* get_by_phone (GET /customer/phone/<phone>)
get_by_phone_response(phone, fields) ==
    LET normalized_phone == normalize_phone(phone)
    IN  IF ~DictHas(phone_idx, normalized_phone)
        THEN abort(404, <<"Phone number not found: ", normalized_phone>>)
        ELSE LET rec == loc(df, DictGet(phone_idx, normalized_phone))
             IN  json_ok([data |-> slice_row(rec, wanted_fields(fields))])

\* get_by_contract (GET /customer/contract/<contract_code>)
get_by_contract_response(contract_code, fields) ==
    IF contract_code = <<>>
    THEN abort(400, "Contract code is required")
    ELSE IF ~DictHas(contract_idx, contract_code)
    THEN abort(404, "Contract code not found")
    ELSE LET rec == loc(df, DictGet(contract_idx, contract_code))
         IN  json_ok([data |-> slice_row(rec, wanted_fields(fields))])

\* the body shared by the numeric accessors keyed by contract code:
\* value = int(rec.get(field, 0)); any exception ends in abort(500)
numeric_by_contract(contract_code, field, what) ==
    IF ~DictHas(contract_idx, contract_code)
    THEN abort(404, "Contract code not found")
    ELSE LET rec == loc(df, DictGet(contract_idx, contract_code))
             value == int_of_field(rec, field)
         IN  IF value.ok
             THEN json_ok([f \in {field} |-> value.val])
             ELSE abort(500, <<"Internal error retrieving ", what>>)

\* the body shared by the numeric accessors keyed by phone
numeric_by_phone(phone, field, what) ==
    LET normalized_phone == normalize_phone(phone)
    IN  IF ~DictHas(phone_idx, normalized_phone)
        THEN abort(404, "Phone number not found")
        ELSE LET rec == loc(df, DictGet(phone_idx, normalized_phone))
                 value == int_of_field(rec, field)
             IN  IF value.ok
                 THEN json_ok([f \in {field} |-> value.val])
                 ELSE abort(500, <<"Internal error retrieving ", what>>)

get_num_tec_response(contract_code) ==
    numeric_by_contract(contract_code, "num_contact_tec", "numTec")

get_num_amm_response(contract_code) ==
    numeric_by_contract(contract_code, "num_contact_amm", "numAmm")

get_wifi_active_response(contract_code) ==
    numeric_by_contract(contract_code, "bb_active", "wifiActive")

\* an accessor that answers 200 with the default for a key the index lacks
get_user_name_response_no_404(contract_code) ==
    IF ~DictHas(contract_idx, contract_code)
    THEN json_ok([user_name |-> <<>>])
    ELSE LET rec == loc(df, DictGet(contract_idx, contract_code))
         IN  json_ok([user_name |->
                        IF "user_name" \in DOMAIN rec THEN rec["user_name"] ELSE <<>>])

\* value = rec.get("user_name", "")
get_user_name_response(contract_code) ==
    IF ~DictHas(contract_idx, contract_code)
    THEN abort(404, "Contract code not found")
    ELSE LET rec == loc(df, DictGet(contract_idx, contract_code))
         IN  json_ok([user_name |->
                        IF "user_name" \in DOMAIN rec THEN rec["user_name"] ELSE <<>>])

get_num_tec_by_phone_response(phone) ==
    numeric_by_phone(phone, "num_contact_tec", "numTec")

get_num_amm_by_phone_response(phone) ==
    numeric_by_phone(phone, "num_contact_amm", "numAmm")

get_wifi_active_by_phone_response(phone) ==
    numeric_by_phone(phone, "bb_active", "wifiActive")

get_user_name_by_phone_response(phone) ==
    LET normalized_phone == normalize_phone(phone)
    IN  IF ~DictHas(phone_idx, normalized_phone)
        THEN abort(404, "Phone number not found")
        ELSE LET rec == loc(df, DictGet(phone_idx, normalized_phone))
             IN  json_ok([user_name |->
                            IF "user_name" \in DOMAIN rec THEN rec["user_name"] ELSE <<>>])

\* list(phone_idx.keys())[:20]
list_phones_response ==
    LET keys == DictKeys(phone_idx)
    IN  json_ok(SubSeq(keys, 1,
                       IF Len(keys) < DebugLimit THEN Len(keys) ELSE DebugLimit))

home_response == [status |-> 200, kind |-> "text", body |-> "API is running"]

----------------------------------------------------------------------------
\* Initial states.

Callers == 1..NCallers

NoValue == [df |-> EmptyFrame, phone_idx |-> EmptyDict, contract_idx |-> EmptyDict]

InitProgram ==
    /\ phase = "boot"
    /\ df = EmptyFrame
    /\ phone_idx = EmptyDict
    /\ contract_idx = EmptyDict
    /\ cache = [full |-> FALSE, value |-> NoValue]
    /\ bodyRuns = 0
    /\ req = NoReq
    /\ resp = NoResp
    /\ pc = [t \in Callers |-> "idle"]
    /\ ret = [t \in Callers |-> [calls |-> 0, outcome |-> "none", value |-> NoValue]]
    /\ norm_out = <<>>

Init ==
    /\ source \in Sources
    /\ norm_in = <<>>
    /\ InitProgram

----------------------------------------------------------------------------
\* Module-level code: df, phone_idx, contract_idx = load_data(), any exception
\* logged and raised again, which ends the import before the app exists.

Startup ==
    /\ phase = "boot"
    /\ LET r == load_data_body(source)
       IN  /\ bodyRuns' = bodyRuns + 1
           /\ IF r.ok
              THEN /\ cache' = [full |-> TRUE,
                                value |-> [df |-> r.df, phone_idx |-> r.phone_idx,
                                           contract_idx |-> r.contract_idx]]
                   /\ df' = r.df
                   /\ phone_idx' = r.phone_idx
                   /\ contract_idx' = r.contract_idx
                   /\ phase' = "serving"
              ELSE /\ phase' = "failed"
                   /\ UNCHANGED <<cache, df, phone_idx, contract_idx>>
    /\ UNCHANGED <<source, req, resp, pc, ret, norm_in, norm_out>>

----------------------------------------------------------------------------
\* Request handlers.  The app object, and with it every route, exists only
\* once the module-level load has succeeded.

Serve(op, key, fields, response) ==
    /\ phase = "serving"
    /\ req' = [op |-> op, key |-> key, fields |-> fields]
    /\ resp' = response
    /\ UNCHANGED <<source, phase, df, phone_idx, contract_idx, cache, bodyRuns,
                   pc, ret, norm_in, norm_out>>

get_by_phone(phone, fields) ==
    Serve("get_by_phone", phone, fields, get_by_phone_response(phone, fields))

get_by_contract(contract_code, fields) ==
    Serve("get_by_contract", contract_code, fields,
          get_by_contract_response(contract_code, fields))

get_num_tec(contract_code) ==
    Serve("get_num_tec", contract_code, <<>>, get_num_tec_response(contract_code))

get_num_amm(contract_code) ==
    Serve("get_num_amm", contract_code, <<>>, get_num_amm_response(contract_code))

get_wifi_active(contract_code) ==
    Serve("get_wifi_active", contract_code, <<>>,
          get_wifi_active_response(contract_code))

get_user_name(contract_code) ==
    Serve("get_user_name", contract_code, <<>>, get_user_name_response(contract_code))

get_num_tec_by_phone(phone) ==
    Serve("get_num_tec_by_phone", phone, <<>>, get_num_tec_by_phone_response(phone))

get_num_amm_by_phone(phone) ==
    Serve("get_num_amm_by_phone", phone, <<>>, get_num_amm_by_phone_response(phone))

get_wifi_active_by_phone(phone) ==
    Serve("get_wifi_active_by_phone", phone, <<>>,
          get_wifi_active_by_phone_response(phone))

get_user_name_by_phone(phone) ==
    Serve("get_user_name_by_phone", phone, <<>>,
          get_user_name_by_phone_response(phone))

\* a debug route that also drops the keys it has listed from the index
list_phones_consuming ==
    /\ phase = "serving"
    /\ req' = [op |-> "list_phones", key |-> <<>>, fields |-> <<>>]
    /\ resp' = list_phones_response
    /\ phone_idx' = EmptyDict
    /\ UNCHANGED <<source, phase, df, contract_idx, cache, bodyRuns,
                   pc, ret, norm_in, norm_out>>

list_phones == Serve("list_phones", <<>>, <<>>, list_phones_response)

home == Serve("home", <<>>, <<>>, home_response)

\* the inputs requests are drawn from
RequestPhones ==
    {<<"3", "9", "1">>, <<"0", "0", "3", "9", " ", "1">>, <<"3", "a">>, <<>>,
     PatchPhone, <<"7">>}

RequestCodes == {<<"A">>, <<"B">>, <<>>, PatchContract, <<"Z">>}

FieldSelectors ==
    {<<>>, <<"status", "nope", "phone_number">>, <<"user_name", "user_name">>}

Next ==
    \/ Startup
    \/ \E phone \in RequestPhones, fields \in FieldSelectors :
           get_by_phone(phone, fields)
    \/ \E contract_code \in RequestCodes, fields \in FieldSelectors :
           get_by_contract(contract_code, fields)
    \/ \E contract_code \in RequestCodes : get_num_tec(contract_code)
    \/ \E contract_code \in RequestCodes : get_num_amm(contract_code)
    \/ \E contract_code \in RequestCodes : get_wifi_active(contract_code)
    \/ \E contract_code \in RequestCodes : get_user_name(contract_code)
    \/ \E phone \in RequestPhones : get_num_tec_by_phone(phone)
    \/ \E phone \in RequestPhones : get_num_amm_by_phone(phone)
    \/ \E phone \in RequestPhones : get_wifi_active_by_phone(phone)
    \/ \E phone \in RequestPhones : get_user_name_by_phone(phone)
    \/ list_phones
    \/ home

Spec == Init /\ [][Next]_vars

----------------------------------------------------------------------------
\* load_data called by several threads.  @lru_cache(maxsize=1) looks the call up
\* in its cache, and on a miss runs the body and then stores what it returned;
\* the lock of lru_cache covers the lookup and the store, not the body, and an
\* exception leaves the cache as it was.

\* the lookup: a hit returns the cached tuple, a miss goes on to the body
load_data_lookup(t) ==
    /\ pc[t] = "idle"
    /\ ret[t].calls < MaxCalls
    /\ IF cache.full
       THEN /\ ret' = [ret EXCEPT ![t] = [calls |-> @.calls + 1, outcome |-> "hit",
                                          value |-> cache.value]]
            /\ pc' = pc
       ELSE /\ ret' = [ret EXCEPT ![t] = [calls |-> @.calls + 1, outcome |-> "miss",
                                          value |-> NoValue]]
            /\ pc' = [pc EXCEPT ![t] = "body"]
    /\ UNCHANGED <<source, phase, df, phone_idx, contract_idx, cache, bodyRuns,
                   req, resp, norm_in, norm_out>>

\* the body: reads the source and builds the indices, or raises
load_data_run(t) ==
    /\ pc[t] = "body"
    /\ bodyRuns' = bodyRuns + 1
    /\ LET r == load_data_body(source)
       IN  IF r.ok
           THEN /\ ret' = [ret EXCEPT ![t] = [calls |-> @.calls, outcome |-> "computed",
                               value |-> [df |-> r.df, phone_idx |-> r.phone_idx,
                                          contract_idx |-> r.contract_idx]]]
                /\ pc' = [pc EXCEPT ![t] = "store"]
           ELSE /\ ret' = [ret EXCEPT ![t] = [calls |-> @.calls, outcome |-> "raised",
                                              value |-> NoValue]]
                /\ pc' = [pc EXCEPT ![t] = "idle"]
    /\ UNCHANGED <<source, phase, df, phone_idx, contract_idx, cache,
                   req, resp, norm_in, norm_out>>

\* the store: the result is cached unless another call cached one meanwhile, and
\* the caller gets what its own run of the body returned
load_data_store(t) ==
    /\ pc[t] = "store"
    /\ cache' = IF cache.full THEN cache ELSE [full |-> TRUE, value |-> ret[t].value]
    /\ ret' = [ret EXCEPT ![t] = [calls |-> @.calls, outcome |-> "returned",
                                  value |-> @.value]]
    /\ pc' = [pc EXCEPT ![t] = "idle"]
    /\ UNCHANGED <<source, phase, df, phone_idx, contract_idx, bodyRuns,
                   req, resp, norm_in, norm_out>>

\* A load that raises ends the import, and with it the process (Startup); the
\* calls followed here are made on sources that load.
InitLoad ==
    /\ source \in {src \in ShortSources(1) : load_data_body(src).ok}
    /\ norm_in = <<>>
    /\ InitProgram

NextLoad ==
    \/ \E t \in Callers : load_data_lookup(t)
    \/ \E t \in Callers : load_data_run(t)
    \/ \E t \in Callers : load_data_store(t)

SpecLoad == InitLoad /\ [][NextLoad]_vars

----------------------------------------------------------------------------
\* normalize_phone applied to an input, and again to its own result.

NormChars == {"0", "3", "9", "+", "-", " ", "a"}

ApplyNormalize ==
    /\ Len(norm_out) < 2
    /\ norm_out' = Append(norm_out,
                          normalize_phone(IF norm_out = <<>> THEN norm_in
                                          ELSE norm_out[Len(norm_out)]))
    /\ UNCHANGED <<source, phase, df, phone_idx, contract_idx, cache, bodyRuns,
                   req, resp, pc, ret, norm_in>>

InitNorm ==
    /\ source = MissingFile
    /\ norm_in \in StringsUpTo(NormChars, MaxLen)
    /\ InitProgram

NextNorm == ApplyNormalize

SpecNorm == InitNorm /\ [][NextNorm]_vars

----------------------------------------------------------------------------
\* Vocabulary of the properties: the request last answered, the key it
\* resolves and the row that key resolves to.

ByPhoneOps ==
    {"get_by_phone", "get_num_tec_by_phone", "get_num_amm_by_phone",
     "get_wifi_active_by_phone", "get_user_name_by_phone"}

ByContractOps ==
    {"get_by_contract", "get_num_tec", "get_num_amm", "get_wifi_active",
     "get_user_name"}

LookupOps == ByPhoneOps \cup ByContractOps

NumericOps ==
    {"get_num_tec", "get_num_amm", "get_wifi_active",
     "get_num_tec_by_phone", "get_num_amm_by_phone", "get_wifi_active_by_phone"}

NumericField ==
    CASE req.op \in {"get_num_tec", "get_num_tec_by_phone"} -> "num_contact_tec"
      [] req.op \in {"get_num_amm", "get_num_amm_by_phone"} -> "num_contact_amm"
      [] OTHER -> "bb_active"

\* the key looked up: the phone after normalize_phone, the contract code as given
ResolvedKey == IF req.op \in ByPhoneOps THEN normalize_phone(req.key) ELSE req.key

UsedIndex == IF req.op \in ByPhoneOps THEN phone_idx ELSE contract_idx

KeyPresent == DictHas(UsedIndex, ResolvedKey)

ResolvedRow == loc(df, DictGet(UsedIndex, ResolvedKey))

EmptyCode == req.op = "get_by_contract" /\ req.key = <<>>

NoRecordData == DOMAIN resp.body = {"detail"}

ColumnValues(col) == {df.rows[i][col] : i \in 1..Len(df.rows)}

\* the greatest zero-based row position holding k in column col
LastPosition(col, k) ==
    CHOOSE p \in 0..(Len(df.rows) - 1) :
        /\ df.rows[p + 1][col] = k
        /\ \A q \in (p + 1)..(Len(df.rows) - 1) : df.rows[q + 1][col] # k

\* the load the claim says must fail: no file, an empty file, or a header that
\* lacks the phone column, the contract column or a default field
LoadMustFail ==
    \/ source.kind \in {"missing", "empty"}
    \/ \E c \in {PHONE_COL, CONTRACT_COL} \cup Range(DEFAULT_FIELDS) :
           c \notin source.columns

----------------------------------------------------------------------------
\* C1: a numeric accessor whose key resolves to a row in which the field is
\* missing, empty or not an integer answers 200 with the value 0, never an
\* error.
C1_NumericDefaultsToZero ==
    (/\ req.op \in NumericOps
     /\ KeyPresent
     /\ \/ NumericField \notin DOMAIN ResolvedRow
        \/ ResolvedRow[NumericField] = <<>>
        \/ ~int_of_str(ResolvedRow[NumericField]).ok)
    => (/\ resp.status = 200
        /\ resp.body = [f \in {NumericField} |-> 0])

\* C2 as stated: after a successful load every row of the store, row 49 of a
\* long store included, holds normalize_phone of the phone value read from the
\* same row of the source.
C2_EveryPhoneNormalized ==
    phase = "serving" =>
        /\ Len(df.rows) = Len(source.rows)
        /\ \A i \in 1..Len(df.rows) :
               df.rows[i][PHONE_COL] =
                   normalize_phone(ReadCell(source.rows[i][PHONE_COL]))

\* C2 amended: after a successful load every row of the store other than row
\* position 49 holds normalize_phone of the phone value read from the same row
\* of the source (empty and NA cells read as the empty string); row position 49,
\* when the store has more than 49 rows, holds "+393478933194".
C2_PhoneNormalizedExceptPatchedRow ==
    phase = "serving" =>
        /\ Len(df.rows) = Len(source.rows)
        /\ \A i \in 1..Len(df.rows) :
               IF i = PatchRow + 1
               THEN df.rows[i][PHONE_COL] = PatchPhone
               ELSE df.rows[i][PHONE_COL] =
                        normalize_phone(ReadCell(source.rows[i][PHONE_COL]))

C2_Witness ==
    /\ phase = "serving"
    /\ Len(df.rows) > PatchRow
    /\ df.rows[PatchRow + 1][PHONE_COL] = PatchPhone
    /\ \E i \in 1..Len(df.rows) :
           /\ i # PatchRow + 1
           /\ df.rows[i][PHONE_COL] # source.rows[i][PHONE_COL]

\* C3: under any interleaving of calls to load_data, the body that reads the
\* source and builds the indices runs at most once.
C3_BodyRunsAtMostOnce == bodyRuns <= 1

\* C4: for every input made only of digits and "+", normalizing the result of
\* normalize_phone again returns that same result.
C4_NormalizeIdempotent ==
    (PHONE_REGEX_match(norm_in) /\ Len(norm_out) = 2) => norm_out[2] = norm_out[1]

C4_Witness ==
    /\ PHONE_REGEX_match(norm_in)
    /\ Len(norm_out) = 2
    /\ norm_out[1] # norm_in
    /\ StartsWith(norm_in, <<"0", "0">>)

\* C5 as stated: for every lookup, a key absent from its index gives 404 with
\* no record data, and a key present in it never gives 404.
C5_AbsentKeyIsNotFound ==
    req.op \in LookupOps =>
        IF KeyPresent THEN resp.status # 404
        ELSE resp.status = 404 /\ NoRecordData

\* C5 amended: for every lookup, a key absent from its index gives 404 with no
\* record data, except that get_by_contract with an empty code gives 400, also
\* with no record data; a key present in the index never gives 404.
C5_AbsentKeyIsNotFoundOrEmptyCode ==
    req.op \in LookupOps =>
        IF KeyPresent THEN resp.status # 404
        ELSE IF EmptyCode
             THEN resp.status = 400 /\ "data" \notin DOMAIN resp.body
             ELSE resp.status = 404 /\ NoRecordData

C5_Witness ==
    /\ req.op = "get_user_name"
    /\ Len(df.rows) > 0
    /\ ~KeyPresent
    /\ resp.status = 404

\* C6: after a successful load the keys of each index are exactly the values of
\* its column of the store, each key maps to the greatest row position holding
\* it, and building the indices again from the same source gives the same
\* indices.
C6_IndicesLastWins ==
    phase = "serving" =>
        /\ \A pair \in {<<phone_idx, PHONE_COL>>, <<contract_idx, CONTRACT_COL>>} :
               /\ Range(DictKeys(pair[1])) = ColumnValues(pair[2])
               /\ \A k \in ColumnValues(pair[2]) :
                      DictGet(pair[1], k) = LastPosition(pair[2], k)
        /\ load_data_body(source).phone_idx = phone_idx
        /\ load_data_body(source).contract_idx = contract_idx

C6_Witness ==
    /\ phase = "serving"
    /\ \E i, j \in 1..Len(df.rows) :
           /\ i < j
           /\ df.rows[i][PHONE_COL] = df.rows[j][PHONE_COL]
           /\ source.rows[i][PHONE_COL] # source.rows[j][PHONE_COL]
           /\ DictGet(phone_idx, df.rows[i][PHONE_COL]) = j - 1

\* C7: every error response, 400, 404 or 500, is the JSON object with the single
\* field "detail", sent with its status code.
C7_ErrorsUseDetailEnvelope ==
    resp.status \in {400, 404, 500} => (resp.kind = "json" /\ NoRecordData)

\* C8: once the load has succeeded, no step (no request, successful or failing)
\* changes the store, the phone index or the contract index.
C8_RequestsLeaveStoreUnchanged ==
    [][phase = "serving" =>
          (df' = df /\ phone_idx' = phone_idx /\ contract_idx' = contract_idx)]_vars

C8_Witness ==
    /\ phase = "serving"
    /\ req.op = "list_phones"
    /\ resp.status = 200
    /\ Len(resp.body) > 1

\* the mapping C9 describes: the requested names that are columns of the row,
\* each with the row's value
ExpectedProjection ==
    LET names == IF req.fields = <<>> THEN DEFAULT_FIELDS ELSE req.fields
    IN  [c \in Range(names) \cap DOMAIN ResolvedRow |-> ResolvedRow[c]]

\* C9 as stated: for a key that resolves to a row, get_by_phone and
\* get_by_contract answer with exactly the requested fields present in that row
\* (the default fields when no selector is given).
C9_ProjectionOfResolvedRow ==
    (req.op \in {"get_by_phone", "get_by_contract"} /\ KeyPresent) =>
        (resp.status = 200 /\ resp.body.data = ExpectedProjection)

\* C9 amended: for a key that resolves to a row (for get_by_contract, a
\* non-empty code), get_by_phone and get_by_contract answer with exactly the
\* requested fields present in that row (the default fields when no selector is
\* given).
C9_ProjectionOfResolvedRowNonEmptyCode ==
    (req.op \in {"get_by_phone", "get_by_contract"} /\ KeyPresent /\ ~EmptyCode) =>
        (resp.status = 200 /\ resp.body.data = ExpectedProjection)

C9_Witness ==
    /\ req.op = "get_by_contract"
    /\ req.fields = <<"status", "nope", "phone_number">>
    /\ KeyPresent
    /\ resp.status = 200
    /\ DOMAIN resp.body.data = {"status", "phone_number"}

\* C10: when the source is missing or empty, or its header lacks the phone
\* column, the contract column or a default field, the load fails, startup ends
\* in failure and no request is ever answered.
C10_FailedLoadNeverServes ==
    /\ LoadMustFail =>
           /\ phase \in {"boot", "failed"}
           /\ bodyRuns = 1 => phase = "failed"
           /\ req = NoReq
           /\ resp = NoResp
           /\ df = EmptyFrame
    /\ phase = "failed" => (req = NoReq /\ resp = NoResp)

C10_Witness ==
    /\ phase = "failed"
    /\ source.kind = "table"
    /\ {PHONE_COL, CONTRACT_COL} \subseteq source.columns
    /\ "status" \notin source.columns

=============================================================================
